---- MODULE Spec2Model ----
(***************************************************************************)
(* dumpsterr: the library validation and processing pipeline of            *)
(* src/src/main.py (sum_path_file_counts, is_dirs_valid,                   *)
(* get_section_media_counts, get_section_file_counts, process_library,     *)
(* main) together with the Plex client calls and the metrics collector it  *)
(* drives.                                                                 *)
(*                                                                         *)
(* Python dicts are functions whose DOMAIN is the set of keys present, so  *)
(* that dict.get(key, default) and "key not configured" mean what they     *)
(* mean in the code.  Python floats are IEEE-754 binary64 values, kept as  *)
(* a 53-bit mantissa and an exponent and rounded to nearest-even after     *)
(* every operation.                                                        *)
(***************************************************************************)
EXTENDS Integers, Sequences, FiniteSets, TLC

\* ------------------------------------------------------------------------
\* Program constants
\* ------------------------------------------------------------------------
DEFAULT_MIN_FILES == 0
DEFAULT_MIN_THRESHOLD == 90
HTTP_OK == 200

\* ------------------------------------------------------------------------
\* Bounds
\* ------------------------------------------------------------------------
MaxLibs == 2

\* ------------------------------------------------------------------------
\* Python values
\* ------------------------------------------------------------------------
None == "None"

\* dict.get(key, default)
Get(d, k, default) == IF k \in DOMAIN d THEN d[k] ELSE default

\* d[key] = value
Put(d, k, v) == [x \in (DOMAIN d) \cup {k} |-> IF x = k THEN v ELSE d[x]]

EmptyDict == [x \in {} |-> None]

\* A configured path is either a bare string or a list of strings; v holds
\* the string of the former and the elements of the latter.
StrPath(s) == [kind |-> "str", v |-> <<s>>]
ListPath(l) == [kind |-> "list", v |-> l]

\* The characters of a path string
Chars == [s \in {"/a", "/b"} |-> <<"/", IF s = "/a" THEN "a" ELSE "b">>]

\* "for directory in directories": a list yields its elements, a string its
\* characters
Iterate(path) == IF path.kind = "str" THEN Chars[path.v[1]] ELSE path.v

\* Variant: only the first path of a library is counted
AsList_first(path) == <<path.v[1]>>

\* get_section_file_counts: "if isinstance(paths, str): paths = [paths]"
AsList(path) == IF path.kind = "str" THEN <<path.v[1]>> ELSE path.v

\* ------------------------------------------------------------------------
\* binary64 arithmetic.  A positive float is [m |-> <<l1, l2, l3, l4>>, e |-> k]:
\* the 52 fraction bits of the mantissa in four 13-bit limbs (the leading
\* bit is implicit), with value (2^52 + l1*2^39 + l2*2^26 + l3*2^13 + l4) * 2^k.
\* Every operation rounds to nearest, ties to even.
\* ------------------------------------------------------------------------
Limb == 2^13
FracBits == 4 * 13

FZero == [m |-> <<>>, e |-> 0]

RECURSIVE BitLen(_)
BitLen(n) == IF n = 0 THEN 0 ELSE 1 + BitLen(n \div 2)

\* Add one unit in the last place to the limbs; carry tells whether it wrapped.
RECURSIVE IncLimbs(_)
IncLimbs(m) ==
    IF m = <<>> THEN [limbs |-> <<>>, carry |-> TRUE]
    ELSE IF m[Len(m)] + 1 < Limb
         THEN [limbs |-> SubSeq(m, 1, Len(m) - 1) \o <<m[Len(m)] + 1>>, carry |-> FALSE]
         ELSE LET r == IncLimbs(SubSeq(m, 1, Len(m) - 1))
              IN  [limbs |-> r.limbs \o <<0>>, carry |-> r.carry]

\* Round the mantissa m at exponent e, given whether the discarded part is
\* above, at or below one half of the last place.
RoundMant(m, e, half) ==
    IF half = "above" \/ (half = "tie" /\ m[Len(m)] % 2 = 1)
    THEN LET r == IncLimbs(m)
         IN  [m |-> r.limbs, e |-> IF r.carry THEN e + 1 ELSE e]
    ELSE [m |-> m, e |-> e]

\* Scale n/d into [1, 2): (n/d) * 2^-k with the k returned.
RECURSIVE Normalise(_, _, _)
Normalise(n, d, k) ==
    IF n < d THEN Normalise(2 * n, d, k - 1)
    ELSE IF n >= 2 * d THEN Normalise(n, 2 * d, k + 1)
    ELSE [n |-> n, d |-> d, k |-> k]

\* Long division: the next cnt quotient limbs of r/d and the remainder left.
RECURSIVE DivLimbs(_, _, _)
DivLimbs(r, d, cnt) ==
    IF cnt = 0 THEN [limbs |-> <<>>, rem |-> r]
    ELSE LET rest == DivLimbs((r * Limb) % d, d, cnt - 1)
         IN  [limbs |-> <<(r * Limb) \div d>> \o rest.limbs, rem |-> rest.rem]

\* float(a) / float(b) for integers a >= 0, b > 0
FDivInt(a, b) ==
    IF a = 0 THEN FZero
    ELSE LET s == Normalise(a, b, 0)
             q == DivLimbs(s.n - s.d, s.d, 4)
             half == IF 2 * q.rem > s.d THEN "above"
                     ELSE IF 2 * q.rem = s.d THEN "tie" ELSE "below"
         IN  RoundMant(q.limbs, s.k - FracBits, half)

\* limbs * c from the least significant limb up, with the carry out
RECURSIVE MulLimbs(_, _, _)
MulLimbs(m, c, carry) ==
    IF m = <<>> THEN [limbs |-> <<>>, carry |-> carry]
    ELSE LET v == m[Len(m)] * c + carry
             rest == MulLimbs(SubSeq(m, 1, Len(m) - 1), c, v \div Limb)
         IN  [limbs |-> rest.limbs \o <<v % Limb>>, carry |-> rest.carry]

\* x * float(c) for a float x >= 0 and an integer 0 < c < Limb
FMulInt(x, c) ==
    IF x = FZero THEN FZero
    ELSE LET p == MulLimbs(x.m, c, 0)
             top == c + p.carry
             s == BitLen(top) - 1
             all == <<top>> \o p.limbs
             shifted == [i \in 1..4 |->
                            (all[i + 1] \div (2^s)) + (all[i] % (2^s)) * (2^(13 - s))]
             dropped == all[5] % (2^s)
             half == IF s = 0 \/ 2 * dropped < 2^s THEN "below"
                     ELSE IF 2 * dropped = 2^s THEN "tie" ELSE "above"
         IN  RoundMant(shifted, x.e + s, half)

\* The integer made of the leading bit and the first j fraction bits, j < 30
TopBits(m, j) ==
    IF j <= 13 THEN 2^j + (m[1] \div (2^(13 - j)))
    ELSE IF j <= 26 THEN 2^j + m[1] * (2^(j - 13)) + (m[2] \div (2^(26 - j)))
    ELSE 2^j + m[1] * (2^(j - 13)) + m[2] * (2^(j - 26)) + (m[3] \div (2^(39 - j)))

\* x < t for a float x >= 0 and an integer 0 <= t < 2^30 (Python compares
\* a float with an int exactly); floor(x) < t decides it because t is whole.
FLessInt(x, t) ==
    IF x = FZero THEN 0 < t
    ELSE LET intBits == FracBits + 1 + x.e
         IN  IF intBits <= 0 THEN 0 < t
             ELSE IF intBits > 30 THEN FALSE
             ELSE TopBits(x.m, intBits - 1) < t

\* Variant: the percentage without the zero guard's 0 (a library with no
\* remote media counts as complete)
ActualPercentage_unguarded(actual_file_count, expected_media_count) ==
    IF expected_media_count > 0
    THEN FMulInt(FDivInt(actual_file_count, expected_media_count), 100)
    ELSE FMulInt(FDivInt(1, 1), 100)

\* (actual_file_count / expected_media_count * 100) if expected_media_count > 0 else 0
ActualPercentage(actual_file_count, expected_media_count) ==
    IF expected_media_count > 0
    THEN FMulInt(FDivInt(actual_file_count, expected_media_count), 100)
    ELSE FZero

\* round(x, 2) for a float x >= 0, as the number of hundredths: the exact
\* value of x times 100, rounded to the nearest integer, ties to even.  With
\* x = M * 2^e the product M * 100 is kept in limbs, least significant first,
\* and cut k = -e bits from the bottom.
RECURSIVE LimbsValue(_, _)
LimbsValue(le, from) ==
    IF from > Len(le) THEN 0 ELSE le[from] + Limb * LimbsValue(le, from + 1)

FRound2(x) ==
    IF x = FZero THEN 0
    ELSE LET p == MulLimbs(x.m, 100, 0)
             le == <<p.limbs[4], p.limbs[3], p.limbs[2], p.limbs[1], 100 + p.carry>>
             k == 0 - x.e
             q == k \div 13
             r == k % 13
             cut == IF q + 1 <= 5 THEN le[q + 1] ELSE 0
             whole == LimbsValue(le, q + 2) * (2^(13 - r)) + (cut \div (2^r))
             \* the discarded part, as its leading limb and whether anything
             \* non-zero lies below that limb
             lead == IF r > 0 THEN (cut % (2^r)) * (2^(13 - r))
                     ELSE IF q >= 1 /\ q <= 5 THEN le[q] ELSE 0
             below == \E n \in 1..5 : n < (IF r > 0 THEN q + 1 ELSE q) /\ le[n] # 0
             up == \/ 2 * lead > Limb
                   \/ 2 * lead = Limb /\ (below \/ whole % 2 = 1)
         IN  IF q >= 6 THEN 0 ELSE IF up THEN whole + 1 ELSE whole

\* ------------------------------------------------------------------------
\* Collaborators: the filesystem and the Plex server answer each call with
\* one of the outcomes below (they are outside the program and may change
\* between two calls).
\* ------------------------------------------------------------------------
DirStates == {"dir", "missing", "not_a_directory", "unreadable"}

\* filesystem._validate_directory: the error raised for a directory state
validate_directory(st) ==
    CASE st = "dir" -> None
      [] st = "missing" -> "FileNotFoundError"
      [] st = "not_a_directory" -> "NotADirectoryError"
      [] st = "unreadable" -> "PermissionError"

\* filesystem.is_valid_directory
is_valid_directory(st) ==
    IF validate_directory(st) = None
    THEN [valid |-> TRUE, error |-> ""]
    ELSE [valid |-> FALSE, error |-> validate_directory(st)]

\* filesystem.get_file_counts on a directory in state st holding n items
get_file_counts(st, n) ==
    IF validate_directory(st) = None
    THEN [raised |-> None, count |-> n]
    ELSE [raised |-> validate_directory(st), count |-> 0]

\* An HTTP exchange: a transport failure or a response with a status code.
TransportError == [kind |-> "transport", status |-> 0]
HttpResponse(code) == [kind |-> "http", status |-> code]

\* requests: a transport failure raises, raise_for_status raises on 4xx/5xx
RequestFails(resp) == resp.kind = "transport" \/ resp.status >= 400

\* Variant: every 2xx status is taken as success
empty_section_trash_any2xx(resp) ==
    IF RequestFails(resp)
    THEN [raised |-> "RequestException", ret |-> FALSE]
    ELSE [raised |-> None, ret |-> (resp.status \in 200..299)]

\* PlexClient.empty_section_trash
empty_section_trash(resp) ==
    IF RequestFails(resp)
    THEN [raised |-> "RequestException", ret |-> FALSE]
    ELSE [raised |-> None, ret |-> (resp.status = HTTP_OK)]

\* Variant: a failed size request is taken as size 0 instead of raising
get_library_size_swallowed(resp, size) ==
    IF RequestFails(resp)
    THEN [raised |-> None, ret |-> 0]
    ELSE [raised |-> None, ret |-> size]

\* PlexClient.get_library_size: size is the 'size' of the MediaContainer
get_library_size(resp, size) ==
    IF RequestFails(resp)
    THEN [raised |-> "RequestException", ret |-> 0]
    ELSE [raised |-> None, ret |-> size]

\* ------------------------------------------------------------------------
\* main.py
\* ------------------------------------------------------------------------

\* is_dirs_valid over directories, the j-th one being in state st[j]
is_dirs_valid(directories, st) ==
    \A j \in 1..Len(directories) : is_valid_directory(st[j]).valid

\* The calls of filesystem.is_valid_directory that is_dirs_valid makes for
\* library lib: one per directory, up to the first invalid one
DirChecks(directories, st, lib) ==
    LET invalid == {n \in 1..Len(directories) : ~is_valid_directory(st[n]).valid}
        last == IF invalid = {} THEN Len(directories)
                ELSE CHOOSE n \in invalid : \A m \in invalid : n <= m
    IN  [n \in 1..last |->
            [op |-> "is_valid_directory", by |-> "is_dirs_valid",
             path |-> directories[n], lib |-> lib,
             ok |-> is_valid_directory(st[n]).valid]]

\* Variant: every section key counts as present
Truthy_always(x) == TRUE

\* "if section_key:"
Truthy(x) == x # None /\ x # ""

\* Variant: the minimum is exclusive
file_counts_not_met_exclusive(library) ==
    Get(library, "file_count", -1) <= Get(library, "min_files", DEFAULT_MIN_FILES)

\* process_library, minimum file counts: the check at "if file_count < min_files"
file_counts_not_met(library) ==
    Get(library, "file_count", -1) < Get(library, "min_files", DEFAULT_MIN_FILES)

\* Variant: the threshold check is skipped
thresholds_not_met_skipped(library) == FALSE

\* process_library, minimum file count thresholds: "if actual_percentage < min_threshold"
thresholds_not_met(library) ==
    LET expected_media_count == Get(library, "media_count", 0)
        actual_file_count == Get(library, "file_count", 0)
        min_threshold == Get(library, "min_threshold", DEFAULT_MIN_THRESHOLD)
    IN  FLessInt(ActualPercentage(actual_file_count, expected_media_count), min_threshold)

\* process_library: the value returned (or the exception raised), the
\* messages logged and the Plex calls made, for a library whose j-th
\* directory is in state st[j] and a server answering emptyTrash with resp
process_library(library, st, resp) ==
    LET section_key == library["section_key"]
        trash == empty_section_trash(resp)
        call == [op |-> "empty_section_trash", arg |-> section_key, resp |-> resp]
        passed == <<"dirs_valid", "file_counts_met", "thresholds_met",
                    "all_checks_passed">>
    IN  IF ~is_dirs_valid(Iterate(library["path"]), st)
        THEN [ret |-> FALSE, raised |-> None, calls |-> <<>>,
              msgs |-> <<"dirs_invalid">>]
        ELSE IF file_counts_not_met(library)
        THEN [ret |-> FALSE, raised |-> None, calls |-> <<>>,
              msgs |-> <<"dirs_valid", "file_counts_not_met">>]
        ELSE IF thresholds_not_met(library)
        THEN [ret |-> FALSE, raised |-> None, calls |-> <<>>,
              msgs |-> <<"dirs_valid", "file_counts_met", "thresholds_not_met">>]
        ELSE IF ~Truthy(section_key)
        THEN [ret |-> FALSE, raised |-> None, calls |-> <<>>,
              msgs |-> passed \o <<"section_not_found">>]
        ELSE IF trash.raised # None
        THEN [ret |-> FALSE, raised |-> trash.raised, calls |-> <<call>>,
              msgs |-> passed]
        ELSE IF trash.ret
        THEN [ret |-> TRUE, raised |-> None, calls |-> <<call>>,
              msgs |-> passed \o <<"trash_emptied">>]
        ELSE [ret |-> FALSE, raised |-> None, calls |-> <<call>>,
              msgs |-> passed \o <<"trash_failed">>]

\* Variant: "library.setdefault(key, default)", which stores the default
AfterGet_setdefault(d, k, default) == IF k \in DOMAIN d THEN d ELSE Put(d, k, default)

\* The dict d after "d.get(key, default)"
AfterGet(d, k, default) == d

\* process_library: the library dict after the call; the function reads
\* library['path'], library['name'] and library['section_key'], gets
\* file_count, min_files, media_count and min_threshold with defaults, and
\* assigns nothing
LibraryAfterProcess(library) ==
    AfterGet(AfterGet(AfterGet(AfterGet(library,
        "file_count", -1),
        "min_files", DEFAULT_MIN_FILES),
        "media_count", 0),
        "min_threshold", DEFAULT_MIN_THRESHOLD)

\* Variant: partial and complete failure exchanged
ExitCode_exchanged(failed_libraries, successful_libraries) ==
    IF failed_libraries # <<>>
    THEN IF successful_libraries # <<>> THEN 2 ELSE 1
    ELSE 0

\* main: the exit code reported for the two result lists
ExitCode(failed_libraries, successful_libraries) ==
    IF failed_libraries # <<>>
    THEN IF successful_libraries # <<>> THEN 1 ELSE 2
    ELSE 0

\* Variant: a bare-string path is left as it is
NormalisePath_identity(library) == library

\* Variant: "list(library['path'])", the list of the characters of the string
NormalisePath_split(library) ==
    IF library["path"].kind = "str"
    THEN Put(library, "path", ListPath(Chars[library["path"].v[1]]))
    ELSE library

\* main: "library['path'] = [library['path']]" for a bare-string path
NormalisePath(library) ==
    IF library["path"].kind = "str"
    THEN Put(library, "path", ListPath(<<library["path"].v[1]>>))
    ELSE library

\* ------------------------------------------------------------------------
\* observability/metrics.py.  An optional number is <<>> (None) or <<n>>.
\* ------------------------------------------------------------------------
NoNum == <<>>
Num(n) == <<n>>

\* MetricsCollector.__init__
InitialRun ==
    [start_time |-> NoNum, end_time |-> NoNum, duration_seconds |-> NoNum,
     exit_code |-> NoNum, libraries_total |-> 0, libraries_successful |-> 0,
     libraries_failed |-> 0, library_details |-> <<>>]

\* Variant: the start time is not stored
start_run_unset(run, now) == run

\* MetricsCollector.start_run at clock reading now
start_run(run, now) == [run EXCEPT !.start_time = Num(now)]

\* MetricsCollector.end_run at clock reading now
end_run(run, code, now) ==
    [run EXCEPT !.end_time = Num(now),
                !.exit_code = Num(code),
                !.duration_seconds =
                    IF run.start_time # NoNum THEN Num(now - run.start_time[1])
                    ELSE run.duration_seconds]

\* Variant: the failed counter is incremented for every result
add_library_result_miscounted(run, name, success, file_count, media_count, pct, error_message) ==
    [run EXCEPT !.libraries_total = @ + 1,
                !.libraries_successful = IF success THEN @ + 1 ELSE @,
                !.libraries_failed = @ + 1,
                !.library_details = Append(@,
                    [name |-> name, success |-> success,
                     file_count |-> file_count, media_count |-> media_count,
                     threshold_percentage |-> pct,
                     error_message |-> error_message])]

\* MetricsCollector.add_library_result
add_library_result(run, name, success, file_count, media_count, pct, error_message) ==
    [run EXCEPT !.libraries_total = @ + 1,
                !.libraries_successful = IF success THEN @ + 1 ELSE @,
                !.libraries_failed = IF success THEN @ ELSE @ + 1,
                !.library_details = Append(@,
                    [name |-> name, success |-> success,
                     file_count |-> file_count, media_count |-> media_count,
                     threshold_percentage |-> pct,
                     error_message |-> error_message])]

\* MetricsCollector._load_historical_metrics: the stored file is <<>> when
\* absent and <<data>> when present
EmptyHistory ==
    [summary |-> [total_runs |-> 0, successful_runs |-> 0, partial_runs |-> 0,
                  failed_runs |-> 0, total_libraries_processed |-> 0,
                  total_libraries_succeeded |-> 0, total_libraries_failed |-> 0],
     runs |-> <<>>]

load_historical_metrics(file) == IF file = <<>> THEN EmptyHistory ELSE file[1]

RUN_HISTORY_LIMIT == 100

\* Variant: the limit is applied before the run is counted in, so that one
\* run more than the limit is kept
LastRuns_late(runs) ==
    IF Len(runs) > RUN_HISTORY_LIMIT + 1
    THEN SubSeq(runs, Len(runs) - RUN_HISTORY_LIMIT + 1, Len(runs))
    ELSE runs

LastRuns(runs) ==
    IF Len(runs) > RUN_HISTORY_LIMIT
    THEN SubSeq(runs, Len(runs) - RUN_HISTORY_LIMIT + 1, Len(runs))
    ELSE runs

\* Variant: every run with a non-zero exit code is counted as partial
update_summary_partial(metrics, run) ==
    [summary |->
        [metrics.summary EXCEPT
            !.total_runs = @ + 1,
            !.successful_runs = IF run.exit_code = Num(0) THEN @ + 1 ELSE @,
            !.partial_runs = IF run.exit_code # Num(0) THEN @ + 1 ELSE @,
            !.total_libraries_processed = @ + run.libraries_total,
            !.total_libraries_succeeded = @ + run.libraries_successful,
            !.total_libraries_failed = @ + run.libraries_failed],
     runs |-> LastRuns(metrics.runs)]

\* MetricsCollector._update_summary
update_summary(metrics, run) ==
    [summary |->
        [metrics.summary EXCEPT
            !.total_runs = @ + 1,
            !.successful_runs = IF run.exit_code = Num(0) THEN @ + 1 ELSE @,
            !.partial_runs = IF run.exit_code = Num(1) THEN @ + 1 ELSE @,
            !.failed_runs = IF run.exit_code \notin {Num(0), Num(1)} THEN @ + 1 ELSE @,
            !.total_libraries_processed = @ + run.libraries_total,
            !.total_libraries_succeeded = @ + run.libraries_successful,
            !.total_libraries_failed = @ + run.libraries_failed],
     runs |-> LastRuns(metrics.runs)]

\* MetricsCollector.save_metrics: the file written, or the error raised by
\* open(..., 'w') when the file cannot be written
save_metrics(run, file, writable) ==
    LET historical_metrics == load_historical_metrics(file)
        appended == [historical_metrics EXCEPT !.runs = Append(@, run)]
    IN  IF writable
        THEN [raised |-> None, file |-> <<update_summary(appended, run)>>,
              logged |-> <<>>]
        ELSE [raised |-> "PermissionError", file |-> file, logged |-> <<>>]

\* ------------------------------------------------------------------------
\* Inputs
\* ------------------------------------------------------------------------
Names == {"Movies", "TV"}
PathChoices == {StrPath("/a"), ListPath(<<"/a">>), ListPath(<<"/a", "/b">>)}

\* The validation settings of a library: (min_files, min_threshold), each
\* either not configured or a number.
PolicyChoices == {<<NoNum, NoNum>>, <<Num(30), Num(0)>>}

\* A library entry of the configuration; a setting that is not configured
\* is a key that is absent.
WithKey(d, k, opt) == IF opt = NoNum THEN d ELSE Put(d, k, opt[1])

Library(name, path, min_files, min_threshold) ==
    WithKey(WithKey([name |-> name, path |-> path], "min_files", min_files),
            "min_threshold", min_threshold)

LibraryChoices ==
    {Library(n, p, pol[1], pol[2]) : n \in Names, p \in PathChoices,
                                     pol \in PolicyChoices}

Configs == UNION {[1..n -> LibraryChoices] : n \in 0..MaxLibs}

\* What the server lists under MediaContainer.Directory
ServerDirectories ==
    {<<>>,
     <<[title |-> "Movies", key |-> "1"], [title |-> "Music", key |-> "3"]>>}
Sizes == {0, 50}
\* The answers to a GET (a listing or a size) and to the emptyTrash PUT
GetResponses == {TransportError, HttpResponse(200), HttpResponse(500)}
Responses == GetResponses \cup {HttpResponse(204)}
Durations == {0, 7}

\* The number of items each directory holds
DirItems ==
    [p \in {"/a", "/b", "/", "a", "b"} |->
        IF p = "/a" THEN 29 ELSE IF p = "/b" THEN 66 ELSE IF p = "/" THEN 2 ELSE 0]

\* ------------------------------------------------------------------------
\* State
\* ------------------------------------------------------------------------
VARIABLES
    pc,                    \* where main stands
    config_data,           \* config_data['libraries']: the caller's library dicts
    config_given,          \* the configuration as the caller passed it
    metrics_collector,     \* whether a collector was passed to main
    current_run,           \* MetricsCollector.current_run
    metrics_file,          \* the stored metrics file: <<>> or <<contents>>
    sections,              \* name -> section key
    section_order,         \* the iteration order of sections
    section_media_counts,  \* name -> media count
    section_file_counts,   \* name -> file count
    i,                     \* index of the section or library being handled
    j,                     \* index of the path being counted
    total_count,           \* sum_path_file_counts.total_count
    successful_libraries,
    failed_libraries,
    exit_code,             \* the value main returned: <<>> or <<code>>
    raised,                \* the exception that left main, and where it came from
    calls,                 \* the Plex requests sent so far, the answer each got
                           \* and the library index it was sent for (0: none)
    plog,                  \* per processed library: what process_library logged
    dirs_seen,             \* per processed library: is_dirs_valid's answer
    saved_runs,            \* the runs saved to the metrics file so far, in order
    fs_calls,              \* the file-system calls made so far: the function
                           \* called, its caller, the path, the library index
                           \* and whether the call succeeded
    current,               \* the dictionary get_current_metrics returned to
                           \* its caller: <<>> or <<its own entries>>
    twin,                  \* main run beside this one on the list form of the
                           \* configuration, given the same answers
    pl_ret                 \* process_library called directly: its return value

vars == <<pc, config_data, config_given, metrics_collector, current_run,
          metrics_file, sections, section_order, section_media_counts,
          section_file_counts, i, j, total_count, successful_libraries,
          failed_libraries, exit_code, raised, calls, plog, dirs_seen, twin,
          saved_runs, fs_calls, current, pl_ret>>

NotRaised == [type |-> None, origin |-> None]

\* A configured library with a bare-string path written as the one-element
\* list holding that string
ListForm(library) ==
    IF library["path"].kind = "str"
    THEN [library EXCEPT !["path"] = ListPath(<<@.v[1]>>)]
    ELSE library

\* main called on the list form of the configuration cfg
TwinStart(cfg) ==
    [config_data |-> [k \in 1..Len(cfg) |-> ListForm(cfg[k])],
     section_file_counts |-> EmptyDict, total_count |-> 0,
     successful_libraries |-> <<>>, failed_libraries |-> <<>>,
     calls |-> <<>>, plog |-> <<>>, exit_code |-> NoNum, raised |-> None]

\* sum_path_file_counts of the twin: path n of its library k, the directory
\* answering the validity check as checked and the count as counted
TwinCount(t, k, n, checked, counted) ==
    LET library == t.config_data[k]
        paths == AsList(library["path"])
        count == get_file_counts(counted, DirItems[paths[n]])
    IN  IF n > Len(paths) THEN t
        ELSE IF ~is_valid_directory(checked).valid
        THEN [t EXCEPT !.raised = "ValueError"]
        ELSE IF count.raised # None
        THEN [t EXCEPT !.raised = count.raised]
        ELSE IF n < Len(paths)
        THEN [t EXCEPT !.total_count = @ + count.count]
        ELSE [t EXCEPT !.section_file_counts =
                           Put(@, library["name"], t.total_count + count.count),
                       !.total_count = 0]

\* The directories process_library checks for a library
CheckedDirs(library) ==
    {Iterate(library["path"])[n] : n \in 1..Len(Iterate(library["path"]))}

\* The answers fs of the file system, for the directories of a library
DirAnswers(library, fs) ==
    [n \in 1..Len(Iterate(library["path"])) |-> fs[Iterate(library["path"])[n]]]

\* One iteration of the twin's loop over its libraries
TwinProcess(t, k, fs, resp) ==
    LET name == t.config_data[k]["name"]
        library == Put(Put(Put(t.config_data[k],
                       "file_count", Get(t.section_file_counts, name, 0)),
                       "media_count", Get(section_media_counts, name, 0)),
                       "section_key", Get(sections, name, None))
        r == process_library(library, DirAnswers(library, fs), resp)
    IN  [t EXCEPT !.config_data[k] = LibraryAfterProcess(library),
                  !.calls = @ \o [n \in 1..Len(r.calls) |-> r.calls[n] @@ [lib |-> k]],
                  !.plog = Append(@, r.msgs),
                  !.raised = r.raised,
                  !.successful_libraries =
                      IF r.raised = None /\ r.ret THEN Append(@, name) ELSE @,
                  !.failed_libraries =
                      IF r.raised = None /\ ~r.ret THEN Append(@, name) ELSE @]

\* The twin's final status and return
TwinReport(t, save_raised) ==
    [t EXCEPT !.raised = save_raised,
              !.exit_code =
                  IF save_raised # None THEN @
                  ELSE Num(ExitCode(t.failed_libraries, t.successful_libraries))]

Init ==
    /\ pc = "idle"
    /\ config_data \in Configs
    /\ config_given = config_data
    /\ metrics_collector \in BOOLEAN
    /\ current_run = InitialRun
    /\ metrics_file = <<>>
    /\ sections = EmptyDict
    /\ section_order = <<>>
    /\ section_media_counts = EmptyDict
    /\ section_file_counts = EmptyDict
    /\ i = 1
    /\ j = 1
    /\ total_count = 0
    /\ successful_libraries = <<>>
    /\ failed_libraries = <<>>
    /\ exit_code = NoNum
    /\ raised = NotRaised
    /\ calls = <<>>
    /\ plog = <<>>
    /\ dirs_seen = <<>>
    /\ twin = TwinStart(config_data)
    /\ saved_runs = <<>>
    /\ current = <<>>
    /\ fs_calls = <<>>
    /\ pl_ret = <<>>

\* The exception exc leaves main from origin.
Raise(exc, origin) ==
    /\ pc' = "raised"
    /\ raised' = [type |-> exc, origin |-> origin]

\* Variant: validation starts right after the section sizes, no file is
\* counted before
AfterMediaCounts_uncounted == IF config_data # <<>> THEN "process" ELSE "report"

\* The phase that follows the section loop of get_section_media_counts and
\* the library loops of get_section_file_counts and main.
AfterMediaCounts == IF config_data # <<>> THEN "file_counts" ELSE "report"

\* main, up to the construction of the Plex client: start_run and the
\* normalisation of bare-string paths, done on the caller's dicts
MainStart ==
    /\ pc = "idle"
    /\ current_run' = IF metrics_collector THEN start_run(current_run, 0)
                      ELSE current_run
    /\ config_data' = [k \in 1..Len(config_data) |-> NormalisePath(config_data[k])]
    /\ twin' = [twin EXCEPT !.config_data =
                    [k \in 1..Len(@) |-> NormalisePath(@[k])]]
    /\ pc' = "client"
    /\ UNCHANGED <<saved_runs, current, fs_calls,
                   config_given, metrics_collector, metrics_file, sections,
                   section_order, section_media_counts, section_file_counts,
                   i, j, total_count, successful_libraries, failed_libraries,
                   exit_code, raised, calls, plog, dirs_seen, pl_ret>>

\* PlexClient.__init__ with PLEX_URL and PLEX_TOKEN from the environment
NewPlexClient ==
    /\ pc = "client"
    /\ \E base_url \in {None, "http://plex:32400"}, token \in {None, "token"} :
          IF ~Truthy(base_url) \/ ~Truthy(token)
          THEN Raise("ValueError", "PlexClient")
          ELSE pc' = "sections" /\ UNCHANGED raised
    /\ UNCHANGED <<saved_runs, current, fs_calls,
                   config_data, config_given, metrics_collector, current_run,
                   metrics_file, sections, section_order, section_media_counts,
                   section_file_counts, i, j, total_count, successful_libraries,
                   failed_libraries, exit_code, calls, plog, dirs_seen, twin,
                   pl_ret>>

\* PlexClient.get_library_sections
GetLibrarySections ==
    /\ pc = "sections"
    /\ \E resp \in GetResponses, directory \in ServerDirectories :
          IF RequestFails(resp)
          THEN /\ Raise("RequestException", "get_library_sections")
               /\ calls' = Append(calls, [op |-> "get_library_sections",
                                          arg |-> None, resp |-> resp, lib |-> 0])
               /\ UNCHANGED <<sections, section_order>>
          ELSE /\ sections' = [t \in {directory[k].title : k \in 1..Len(directory)} |->
                                  (CHOOSE d \in {directory[k] : k \in 1..Len(directory)} :
                                       d.title = t).key]
               /\ section_order' = [k \in 1..Len(directory) |-> directory[k].title]
               /\ calls' = Append(calls, [op |-> "get_library_sections",
                                          arg |-> None, resp |-> resp, lib |-> 0])
               /\ pc' = IF directory # <<>> THEN "media_counts" ELSE AfterMediaCounts
               /\ UNCHANGED raised
    /\ i' = 1
    /\ UNCHANGED <<saved_runs, current, fs_calls,
                   config_data, config_given, metrics_collector, current_run,
                   metrics_file, section_media_counts, section_file_counts,
                   j, total_count, successful_libraries, failed_libraries,
                   exit_code, plog, dirs_seen, twin, pl_ret>>

\* get_section_media_counts: one iteration of its loop over sections.items()
GetLibrarySize ==
    /\ pc = "media_counts"
    /\ LET section == section_order[i]
           key == sections[section]
       IN  \E resp \in GetResponses, size \in Sizes :
              LET r == get_library_size(resp, size)
              IN  /\ calls' = Append(calls, [op |-> "get_library_size", arg |-> key,
                                             resp |-> resp, lib |-> 0])
                  /\ IF r.raised # None
                     THEN /\ Raise(r.raised, "get_library_size")
                          /\ UNCHANGED <<section_media_counts, i>>
                     ELSE /\ section_media_counts' =
                                 Put(section_media_counts, section, r.ret)
                          /\ IF i < Len(section_order)
                             THEN i' = i + 1 /\ pc' = "media_counts"
                             ELSE i' = 1 /\ pc' = AfterMediaCounts
                          /\ UNCHANGED raised
    /\ UNCHANGED <<saved_runs, current, fs_calls,
                   config_data, config_given, metrics_collector, current_run,
                   metrics_file, sections, section_order, section_file_counts,
                   j, total_count, successful_libraries, failed_libraries,
                   exit_code, plog, dirs_seen, twin, pl_ret>>

\* get_section_file_counts / sum_path_file_counts: one iteration of the
\* loop over the paths of library i (validity check, then count); the last
\* path of a library stores the library's sum under its name
SumPathIteration ==
    /\ pc = "file_counts"
    /\ LET library == config_data[i]
           paths == AsList(library["path"])
       IN  \E checked \in DirStates, counted \in DirStates :
              LET count == get_file_counts(counted, DirItems[paths[j]])
                  check == [op |-> "is_valid_directory",
                            by |-> "sum_path_file_counts", path |-> paths[j],
                            lib |-> i, ok |-> is_valid_directory(checked).valid]
                  listing == [op |-> "get_file_counts",
                              by |-> "sum_path_file_counts", path |-> paths[j],
                              lib |-> i, ok |-> count.raised = None]
              IN  /\ twin' = TwinCount(twin, i, j, checked, counted)
                  /\ fs_calls' = IF check.ok THEN fs_calls \o <<check, listing>>
                                 ELSE Append(fs_calls, check)
                  /\ IF ~is_valid_directory(checked).valid
                     THEN /\ Raise("ValueError", "sum_path_file_counts")
                          /\ UNCHANGED <<section_file_counts, i, j, total_count>>
                     ELSE IF count.raised # None
                     THEN /\ Raise(count.raised, "get_file_counts")
                          /\ UNCHANGED <<section_file_counts, i, j, total_count>>
                     ELSE /\ UNCHANGED raised
                          /\ IF j < Len(paths)
                             THEN /\ total_count' = total_count + count.count
                                  /\ j' = j + 1
                                  /\ pc' = "file_counts"
                                  /\ UNCHANGED <<section_file_counts, i>>
                             ELSE /\ section_file_counts' =
                                         Put(section_file_counts, library["name"],
                                             total_count + count.count)
                                  /\ total_count' = 0
                                  /\ j' = 1
                                  /\ IF i < Len(config_data)
                                     THEN i' = i + 1 /\ pc' = "file_counts"
                                     ELSE i' = 1 /\ pc' = "process"
    /\ UNCHANGED <<saved_runs, current,
                   config_data, config_given, metrics_collector, current_run,
                   metrics_file, sections, section_order, section_media_counts,
                   successful_libraries, failed_libraries, exit_code, calls,
                   plog, dirs_seen, pl_ret>>

\* Variant: a name the listing does not hold gets the library's file count
\* as its media count
WithDerivedFields_mirrored(library) ==
    Put(Put(Put(library,
        "file_count", Get(section_file_counts, library["name"], 0)),
        "media_count", Get(section_media_counts, library["name"],
                           Get(section_file_counts, library["name"], 0))),
        "section_key", Get(sections, library["name"], None))

\* Variant: a name the listing does not hold gets the name as its section key
WithDerivedFields_keyed(library) ==
    Put(Put(Put(library,
        "file_count", Get(section_file_counts, library["name"], 0)),
        "media_count", Get(section_media_counts, library["name"], 0)),
        "section_key", Get(sections, library["name"], library["name"]))

\* main: the derived fields stored on the library dict before it is processed
WithDerivedFields(library) ==
    Put(Put(Put(library,
        "file_count", Get(section_file_counts, library["name"], 0)),
        "media_count", Get(section_media_counts, library["name"], 0)),
        "section_key", Get(sections, library["name"], None))

\* main: the error message reported to the metrics collector
ErrorMessage(success) ==
    IF success THEN None ELSE "Validation or trash emptying failed"

\* Variant: the name is put at the front of the list
AppendIf_front(list, cond, name) == IF cond THEN <<name>> \o list ELSE list

\* main: "successful_libraries.append(library['name'])" and
\* "failed_libraries.append(library['name'])", each under its condition
AppendIf(list, cond, name) == IF cond THEN Append(list, name) ELSE list

\* main: one iteration of the loop over all_media_info
ProcessNext ==
    /\ pc = "process"
    /\ LET library == WithDerivedFields(config_data[i])
           paths == Iterate(library["path"])
           expected_media_count == library["media_count"]
           actual_file_count == library["file_count"]
           actual_percentage == ActualPercentage(actual_file_count, expected_media_count)
           dirs == CheckedDirs(library) \cup CheckedDirs(twin.config_data[i])
       IN  \E fs \in [dirs -> DirStates], resp \in Responses :
              LET st == DirAnswers(library, fs)
                  r == process_library(library, st, resp)
                  success == r.ret
              IN  /\ config_data' = [config_data EXCEPT
                                         ![i] = LibraryAfterProcess(library)]
                  /\ twin' = TwinProcess(twin, i, fs, resp)
                  /\ calls' = calls \o [k \in 1..Len(r.calls) |->
                                           r.calls[k] @@ [lib |-> i]]
                  /\ plog' = Append(plog, r.msgs)
                  /\ dirs_seen' = Append(dirs_seen, is_dirs_valid(paths, st))
                  /\ fs_calls' = fs_calls \o DirChecks(paths, st, i)
                  /\ IF r.raised # None
                     THEN /\ Raise(r.raised, "empty_section_trash")
                          /\ UNCHANGED <<successful_libraries, failed_libraries,
                                         current_run, i>>
                     ELSE /\ successful_libraries' =
                                 AppendIf(successful_libraries, success,
                                          library["name"])
                          /\ failed_libraries' =
                                 AppendIf(failed_libraries, ~success,
                                          library["name"])
                          /\ current_run' =
                                 IF metrics_collector
                                 THEN add_library_result(current_run,
                                          library["name"], success,
                                          actual_file_count, expected_media_count,
                                          FRound2(actual_percentage),
                                          ErrorMessage(success))
                                 ELSE current_run
                          /\ IF i < Len(config_data)
                             THEN i' = i + 1 /\ pc' = "process"
                             ELSE i' = 1 /\ pc' = "report"
                          /\ UNCHANGED raised
    /\ UNCHANGED <<saved_runs, current,
                   config_given, metrics_collector, metrics_file, sections,
                   section_order, section_media_counts, section_file_counts,
                   j, total_count, exit_code, pl_ret>>

\* main: the final status, the metrics finalisation and the return
Report ==
    /\ pc = "report"
    /\ LET code == ExitCode(failed_libraries, successful_libraries)
       IN  IF metrics_collector
           THEN \E elapsed \in Durations, writable \in BOOLEAN :
                   LET ended == end_run(current_run, code, elapsed)
                       saved == save_metrics(ended, metrics_file, writable)
                   IN  /\ current_run' = ended
                       /\ metrics_file' = saved.file
                       /\ saved_runs' = IF saved.raised = None
                                        THEN Append(saved_runs, ended)
                                        ELSE saved_runs
                       /\ twin' = TwinReport(twin, saved.raised)
                       /\ IF saved.raised # None
                          THEN /\ Raise(saved.raised, "save_metrics")
                               /\ UNCHANGED exit_code
                          ELSE /\ pc' = "returned"
                               /\ exit_code' = Num(code)
                               /\ UNCHANGED raised
           ELSE /\ pc' = "returned"
                /\ exit_code' = Num(code)
                /\ twin' = TwinReport(twin, None)
                /\ UNCHANGED <<current_run, metrics_file, raised, saved_runs>>
    /\ UNCHANGED <<config_data, config_given, metrics_collector, sections,
                   section_order, section_media_counts, section_file_counts,
                   i, j, total_count, successful_libraries, failed_libraries,
                   calls, plog, dirs_seen, fs_calls, current, pl_ret>>

Next ==
    \/ MainStart
    \/ NewPlexClient
    \/ GetLibrarySections
    \/ GetLibrarySize
    \/ SumPathIteration
    \/ ProcessNext
    \/ Report

Spec == Init /\ [][Next]_vars

\* ------------------------------------------------------------------------
\* process_library called on its own with a library dict whose derived
\* fields the caller has filled in
\* ------------------------------------------------------------------------
UnitFileCounts == {NoNum, Num(0), Num(5), Num(29), Num(30), Num(50), Num(95), Num(100)}
UnitMediaCounts == {NoNum, Num(0), Num(50), Num(100)}
UnitMinFiles == {NoNum, Num(0), Num(30)}
UnitMinThresholds == {NoNum, Num(0), Num(29), Num(58), Num(90)}
UnitSectionKeys == {None, "1"}

UnitLibraries ==
    {WithKey(WithKey(Put(Library("Movies", ListPath(<<"/a">>), mf, mt),
                         "section_key", key),
                     "file_count", fc),
             "media_count", mc) :
        fc \in UnitFileCounts, mc \in UnitMediaCounts, mf \in UnitMinFiles,
        mt \in UnitMinThresholds, key \in UnitSectionKeys}

InitPL ==
    /\ pc = "unit"
    /\ config_data \in {<<l>> : l \in UnitLibraries}
    /\ config_given = config_data
    /\ metrics_collector = FALSE
    /\ current_run = InitialRun
    /\ metrics_file = <<>>
    /\ sections = EmptyDict
    /\ section_order = <<>>
    /\ section_media_counts = EmptyDict
    /\ section_file_counts = EmptyDict
    /\ i = 1
    /\ j = 1
    /\ total_count = 0
    /\ successful_libraries = <<>>
    /\ failed_libraries = <<>>
    /\ exit_code = NoNum
    /\ raised = NotRaised
    /\ calls = <<>>
    /\ plog = <<>>
    /\ dirs_seen = <<>>
    /\ twin = TwinStart(config_data)
    /\ saved_runs = <<>>
    /\ current = <<>>
    /\ fs_calls = <<>>
    /\ pl_ret = <<>>

ProcessLibraryCall ==
    /\ pc = "unit"
    /\ LET library == config_data[1]
           paths == Iterate(library["path"])
       IN  \E fs \in [CheckedDirs(library) -> DirStates], resp \in Responses :
              LET st == DirAnswers(library, fs)
                  r == process_library(library, st, resp)
              IN  /\ config_data' = <<LibraryAfterProcess(library)>>
                  /\ calls' = [k \in 1..Len(r.calls) |-> r.calls[k] @@ [lib |-> 1]]
                  /\ plog' = <<r.msgs>>
                  /\ dirs_seen' = <<is_dirs_valid(paths, st)>>
                  /\ fs_calls' = DirChecks(paths, st, 1)
                  /\ IF r.raised # None
                     THEN Raise(r.raised, "empty_section_trash") /\ UNCHANGED pl_ret
                     ELSE pc' = "unit_done" /\ pl_ret' = <<r.ret>> /\ UNCHANGED raised
    /\ UNCHANGED <<saved_runs, current,
                   config_given, metrics_collector, current_run,
                   metrics_file, sections, section_order, section_media_counts,
                   section_file_counts, i, j, total_count, successful_libraries,
                   failed_libraries, exit_code, twin>>

NextPL == ProcessLibraryCall

SpecPL == InitPL /\ [][NextPL]_vars

\* ------------------------------------------------------------------------
\* A MetricsCollector used on its own: runs are started, library results
\* added, ended and saved, each run by a new collector on the same file
\* ------------------------------------------------------------------------
MaxResults == 2
MaxSaves == 2

\* The results reported for a library: (success, file_count, media_count)
ResultChoices == {<<TRUE, 95, 100>>, <<FALSE, 29, 0>>}

\* A run saved before: started at clock reading k and ended at once with
\* exit code 0 and no library
EarlierRun(k) == end_run(start_run(InitialRun, k), 0, k)
EarlierRuns(n) == [k \in 1..n |-> EarlierRun(k)]

\* The metrics file after the n runs EarlierRun(1) .. EarlierRun(n) were
\* saved to it, each by a new collector, for n up to the history limit:
\* every run counted as successful with no library, and all of them kept
FileAfter(n) ==
    IF n = 0 THEN <<>>
    ELSE <<[summary |-> [EmptyHistory.summary EXCEPT !.total_runs = n,
                                                     !.successful_runs = n],
            runs |-> EarlierRuns(n)]>>

\* How many runs the file holds when the first collector is made
EarlierSaves == {0, RUN_HISTORY_LIMIT - 1}

InitMC ==
    /\ pc = "mc_new"
    /\ config_data = <<>>
    /\ config_given = <<>>
    /\ metrics_collector = TRUE
    /\ current_run = InitialRun
    /\ \E n \in EarlierSaves :
          /\ metrics_file = FileAfter(n)
          /\ saved_runs = EarlierRuns(n)
    /\ current = <<>>
    /\ fs_calls = <<>>
    /\ sections = EmptyDict
    /\ section_order = <<>>
    /\ section_media_counts = EmptyDict
    /\ section_file_counts = EmptyDict
    /\ i = 1
    /\ j = 1
    /\ total_count = 0
    /\ successful_libraries = <<>>
    /\ failed_libraries = <<>>
    /\ exit_code = NoNum
    /\ raised = NotRaised
    /\ calls = <<>>
    /\ plog = <<>>
    /\ dirs_seen = <<>>
    /\ twin = TwinStart(<<>>)
    /\ pl_ret = <<>>

\* What a collector used on its own leaves alone
MCFrame ==
    UNCHANGED <<config_data, config_given, metrics_collector, sections,
                section_order, section_media_counts, section_file_counts,
                i, j, total_count, successful_libraries, failed_libraries,
                exit_code, calls, dirs_seen, fs_calls, twin, pl_ret>>

\* What the operations of the collector itself leave alone besides
MCOwnFrame == MCFrame /\ UNCHANGED current

\* MetricsCollector(metrics_file) on the file the runs before were saved to
MCNew ==
    /\ pc = "mc_saved"
    /\ Len(plog) < MaxSaves
    /\ current_run' = InitialRun
    /\ pc' = "mc_new"
    /\ UNCHANGED <<metrics_file, raised, plog, saved_runs>>
    /\ MCOwnFrame

MCStartRun ==
    /\ pc = "mc_new"
    /\ current_run' = start_run(current_run, 0)
    /\ pc' = "mc_running"
    /\ UNCHANGED <<metrics_file, raised, plog, saved_runs>>
    /\ MCOwnFrame

MCAddLibraryResult ==
    /\ pc = "mc_running"
    /\ current_run.libraries_total < MaxResults
    /\ \E res \in ResultChoices :
          current_run' = add_library_result(current_run, "Movies", res[1], res[2],
                             res[3], FRound2(ActualPercentage(res[2], res[3])),
                             ErrorMessage(res[1]))
    /\ UNCHANGED <<pc, metrics_file, raised, plog, saved_runs>>
    /\ MCOwnFrame

MCEndRun ==
    /\ pc = "mc_running"
    /\ \E code \in {0, 1, 2}, elapsed \in Durations :
          current_run' = end_run(current_run, code, elapsed)
    /\ pc' = "mc_ended"
    /\ UNCHANGED <<metrics_file, raised, plog, saved_runs>>
    /\ MCOwnFrame

MCSaveMetrics ==
    /\ pc = "mc_ended"
    /\ \E writable \in BOOLEAN :
          LET saved == save_metrics(current_run, metrics_file, writable)
          IN  /\ metrics_file' = saved.file
              /\ saved_runs' = IF saved.raised = None
                               THEN Append(saved_runs, current_run)
                               ELSE saved_runs
              /\ plog' = Append(plog, saved.logged)
              /\ IF saved.raised # None
                 THEN Raise(saved.raised, "save_metrics")
                 ELSE pc' = "mc_saved" /\ UNCHANGED raised
    /\ UNCHANGED current_run
    /\ MCOwnFrame

\* The keys of the run whose value dict.copy() hands on as the same object
\* and which a caller can change in place: the list of details
SharedKeys == {"library_details"}

\* MetricsCollector.get_current_metrics: self.current_run.copy(), a new
\* dictionary with the same values; the entries the result holds by itself
get_current_metrics(run) == [k \in DOMAIN run \ SharedKeys |-> run[k]]

\* current = collector.get_current_metrics()
MCGetCurrentMetrics ==
    /\ pc = "mc_running"
    /\ current = <<>>
    /\ current' = <<get_current_metrics(current_run)>>
    /\ pc' = "mc_got"
    /\ UNCHANGED <<current_run, metrics_file, raised, plog, saved_runs>>
    /\ MCFrame

\* current['libraries_total'] = 999
MCChangeCounter ==
    /\ pc = "mc_got"
    /\ current' = <<[current[1] EXCEPT !.libraries_total = 999]>>
    /\ pc' = "mc_changed"
    /\ UNCHANGED <<current_run, metrics_file, raised, plog, saved_runs>>
    /\ MCFrame

\* current['library_details'].append({'name': 'Music'}): the list is changed
\* in place, and it is the list the collector's current_run holds
MCChangeDetails ==
    /\ pc = "mc_got"
    /\ current_run' = [current_run EXCEPT
                          !.library_details = Append(@, [name |-> "Music"])]
    /\ UNCHANGED current
    /\ pc' = "mc_changed"
    /\ UNCHANGED <<metrics_file, raised, plog, saved_runs>>
    /\ MCFrame

NextMC ==
    \/ MCNew
    \/ MCStartRun
    \/ MCAddLibraryResult
    \/ MCEndRun
    \/ MCSaveMetrics
    \/ MCGetCurrentMetrics
    \/ MCChangeCounter
    \/ MCChangeDetails

SpecMC == InitMC /\ [][NextMC]_vars

\* ------------------------------------------------------------------------
\* Properties
\* ------------------------------------------------------------------------

\* The run has ended: main returned or an exception left it.
Ended == pc \in {"returned", "raised"}

\* A request the transport or the server failed (connection error, 4xx, 5xx)
Failed(resp) == resp.kind = "transport" \/ resp.status \in 400..599

TrashCalls == {k \in 1..Len(calls) : calls[k].op = "empty_section_trash"}

\* The settings in force for a library dict
MinFilesOf(library) ==
    IF "min_files" \in DOMAIN library THEN library["min_files"] ELSE 0
MinThresholdOf(library) ==
    IF "min_threshold" \in DOMAIN library THEN library["min_threshold"] ELSE 90

\* 100 * local / remote >= threshold in exact arithmetic, 0 percent when
\* the remote count is 0
MeetsThreshold(local, remote, threshold) ==
    IF remote > 0 THEN 100 * local >= threshold * remote ELSE 0 >= threshold

\* C1: whenever main returns, the exit code is 0 exactly when the failed
\* list is empty, 2 exactly when the successful list is empty and the failed
\* list is not, and 1 exactly when both lists are non-empty; with no
\* configured library it is 0 and both lists are empty.
C1_ExitCodeMatchesLists ==
    pc = "returned" =>
        /\ exit_code # NoNum
        /\ exit_code[1] \in {0, 1, 2}
        /\ (exit_code[1] = 0 <=> failed_libraries = <<>>)
        /\ (exit_code[1] = 2 <=>
                (successful_libraries = <<>> /\ failed_libraries # <<>>))
        /\ (exit_code[1] = 1 <=>
                (successful_libraries # <<>> /\ failed_libraries # <<>>))
        /\ (config_given = <<>> =>
                /\ exit_code[1] = 0
                /\ successful_libraries = <<>>
                /\ failed_libraries = <<>>)

C1_Witness ==
    /\ pc = "returned"
    /\ exit_code = Num(1)
    /\ successful_libraries # <<>>
    /\ failed_libraries # <<>>

\* C2: once the section listing and every section size have been fetched,
\* no failure of a library (an invalid directory while counting, a failed
\* check, a missing section, a failed or raising emptyTrash) ends the run:
\* no exception from counting or from emptyTrash leaves main, and when main
\* returns every configured library is in exactly one of the two lists.
C2_LibraryFailureNeverEndsRun ==
    /\ ~(pc = "raised" /\ raised.origin \in
            {"sum_path_file_counts", "get_file_counts", "empty_section_trash"})
    /\ pc = "returned" =>
          Len(successful_libraries) + Len(failed_libraries) = Len(config_given)

\* C3: a library with a path that fails the validity predicate is failed at
\* the directory check: the run does not end with the invalid-directory
\* error, and a library whose directory check failed is in the failed list
\* and had no emptyTrash call.
C3_InvalidDirectoryFailsLibraryOnly ==
    /\ ~(pc = "raised" /\ raised.type = "ValueError"
                       /\ raised.origin = "sum_path_file_counts")
    /\ \A k \in 1..Len(dirs_seen) :
          ~dirs_seen[k] =>
              /\ \E n \in 1..Len(failed_libraries) :
                    failed_libraries[n] = config_data[k]["name"]
              /\ \A c \in TrashCalls : calls[c].lib # k

\* C4: for a library that passed validation and has a section id, an
\* emptyTrash that returns false or raises records the library as failed and
\* the run goes on; one that returns true records it as successful.
C4_TrashOutcomeDecidesLibrary ==
    /\ ~(pc = "raised" /\ raised.origin = "empty_section_trash")
    /\ \A c \in TrashCalls :
          LET name == config_data[calls[c].lib]["name"]
          IN  IF calls[c].resp = HttpResponse(200)
              THEN \E n \in 1..Len(successful_libraries) :
                      successful_libraries[n] = name
              ELSE \E n \in 1..Len(failed_libraries) :
                      failed_libraries[n] = name

\* C5: with a metrics collector, no failure of the collector is surfaced to
\* the caller of main: every run that reached the final report returns its
\* exit code.
C5_MetricsFailureNeverSurfaces ==
    metrics_collector => ~(pc = "raised" /\ raised.origin = "save_metrics")

\* C6: when the section listing or a section size request fails, the run
\* ends with the error: no exit code, no library in either list and no
\* emptyTrash request.
C6_RemoteListingErrorsAreFatal ==
    \A k \in 1..Len(calls) :
        (calls[k].op \in {"get_library_sections", "get_library_size"}
            /\ Failed(calls[k].resp)) =>
                /\ pc = "raised"
                /\ raised.type = "RequestException"
                /\ exit_code = NoNum
                /\ successful_libraries = <<>>
                /\ failed_libraries = <<>>
                /\ TrashCalls = {}
                /\ k = Len(calls)

C6_Witness ==
    /\ pc = "raised"
    /\ Len(calls) = 3
    /\ calls[3].op = "get_library_size"
    /\ Failed(calls[3].resp)
    /\ config_given # <<>>

\* C7: every emptyTrash request is sent for a library whose directory
\* check, minimum-file check and threshold check passed in this run, after
\* those checks, with the section id the listing gave for the library's
\* name; at most one is sent per library and none for a section no
\* configured library names.
C7_TrashOnlyAfterAllChecks ==
    \A c \in TrashCalls :
        LET k == calls[c].lib
            library == config_data[k]
        IN  /\ k \in 1..Len(plog)
            /\ dirs_seen[k]
            /\ library["file_count"] >= MinFilesOf(library)
            /\ MeetsThreshold(library["file_count"], library["media_count"],
                              MinThresholdOf(library))
            /\ SubSeq(plog[k], 1, 4) = <<"dirs_valid", "file_counts_met",
                                         "thresholds_met", "all_checks_passed">>
            /\ library["name"] \in DOMAIN sections
            /\ calls[c].arg = sections[library["name"]]
            /\ calls[c].arg # None
            /\ \A d \in TrashCalls : calls[d].lib = k => d = c

C7_Witness ==
    /\ pc = "returned"
    /\ \E c \in TrashCalls : calls[c].resp = HttpResponse(200)
    /\ \E k \in 1..Len(plog) : plog[k][Len(plog[k])] = "thresholds_not_met"
    /\ "Music" \in DOMAIN sections

\* process_library called on its own: the call has been made, and the
\* checks it logged
Called == pc \in {"unit_done", "raised"}
Logged(msg) == \E n \in 1..Len(plog[1]) : plog[1][n] = msg
ThresholdChecked == Logged("thresholds_met") \/ Logged("thresholds_not_met")

\* C8: with a remote media count of 0 the percentage is 0 whatever the
\* local file count, so the threshold check fails for every positive
\* minimum threshold (the default 90 included) and passes only for 0.
C8_ZeroMediaCountIsZeroPercent ==
    (Called /\ ThresholdChecked /\ Get(config_data[1], "media_count", 0) = 0) =>
        (Logged("thresholds_met") <=> MinThresholdOf(config_data[1]) = 0)

C8_Witness ==
    /\ pc = "unit_done"
    /\ "media_count" \in DOMAIN config_data[1]
    /\ config_data[1]["media_count"] = 0
    /\ Get(config_data[1], "file_count", 0) = 95
    /\ "min_threshold" \notin DOMAIN config_data[1]
    /\ Logged("thresholds_not_met")
    /\ pl_ret = <<FALSE>>

\* C9: with a remote media count above 0 the threshold check passes exactly
\* when 100 * localFileCount >= minThresholdPercent * remoteMediaCount
\* (inclusive), the threshold being 90 when not configured.
C9_ThresholdIsExactAndInclusive ==
    (Called /\ ThresholdChecked /\ Get(config_data[1], "media_count", 0) > 0) =>
        (Logged("thresholds_met") <=>
            100 * Get(config_data[1], "file_count", 0) >=
                MinThresholdOf(config_data[1]) * config_data[1]["media_count"])

\* C10: the minimum-file check passes exactly when localFileCount >=
\* minFiles (0 when not configured), and a library below its minimum is
\* failed with no emptyTrash request, whatever its percentage.
C10_MinimumFilesCheck ==
    (Called /\ dirs_seen[1] /\ "file_count" \in DOMAIN config_data[1]) =>
        /\ Logged("file_counts_met") <=>
              config_data[1]["file_count"] >= MinFilesOf(config_data[1])
        /\ Logged("file_counts_not_met") <=>
              config_data[1]["file_count"] < MinFilesOf(config_data[1])
        /\ config_data[1]["file_count"] < MinFilesOf(config_data[1]) =>
              /\ pl_ret = <<FALSE>>
              /\ calls = <<>>

C10_Witness ==
    /\ pc = "unit_done"
    /\ dirs_seen[1]
    /\ Get(config_data[1], "file_count", 0) = 29
    /\ MinFilesOf(config_data[1]) = 30
    /\ Get(config_data[1], "media_count", 0) = 50
    /\ MinThresholdOf(config_data[1]) = 29
    /\ config_data[1]["section_key"] = "1"
    /\ pl_ret = <<FALSE>>
    /\ calls = <<>>

\* The libraries main has processed and put in one of its two lists (a
\* library whose emptyTrash raised is in neither), and how each came out
Recorded ==
    {k \in 1..Len(plog) :
        ~(k = Len(plog) /\ pc = "raised" /\ raised.origin = "empty_section_trash")}
LastLogged(k) == plog[k][Len(plog[k])]
Succeeded(k) == LastLogged(k) = "trash_emptied"
FailedUpTo(k) == Cardinality({n \in Recorded : n <= k /\ ~Succeeded(n)})
SucceededUpTo(k) == Cardinality({n \in Recorded : n <= k /\ Succeeded(n)})
RecordedFailed(k) ==
    /\ k \in Recorded
    /\ ~Succeeded(k)
    /\ FailedUpTo(k) <= Len(failed_libraries)
    /\ failed_libraries[FailedUpTo(k)] = config_data[k]["name"]
RecordedSuccessful(k) ==
    /\ k \in Recorded
    /\ Succeeded(k)
    /\ SucceededUpTo(k) <= Len(successful_libraries)
    /\ successful_libraries[SucceededUpTo(k)] = config_data[k]["name"]

\* The processed libraries whose name the section listing does not hold
Unmatched == {k \in 1..Len(plog) : config_data[k]["name"] \notin DOMAIN sections}

\* C11 as stated: every processed library whose name has no match in the
\* sections mapping has section key None, is recorded as failed with the
\* section-not-found reason, and no emptyTrash request is sent for it.
C11_UnmatchedFailsSectionNotFound ==
    \A k \in Unmatched :
        /\ config_data[k]["section_key"] = None
        /\ RecordedFailed(k)
        /\ LastLogged(k) = "section_not_found"
        /\ \A c \in TrashCalls : calls[c].lib # k

\* C11 amended: every processed library whose name has no match in the
\* sections mapping has section key None and media count 0, is recorded as
\* failed, and no emptyTrash request is sent for it; its failure reason is
\* section-not-found exactly when its directories are valid, its file count
\* reaches its minimum and its minimum threshold is at most 0, and otherwise
\* the reason of the first check that failed.
C11_UnmatchedFailsWithoutTrashCall ==
    \A k \in Unmatched :
        LET library == config_data[k]
        IN  /\ library["section_key"] = None
            /\ library["media_count"] = 0
            /\ RecordedFailed(k)
            /\ \A c \in TrashCalls : calls[c].lib # k
            /\ LastLogged(k) =
                  IF ~dirs_seen[k] THEN "dirs_invalid"
                  ELSE IF library["file_count"] < MinFilesOf(library)
                  THEN "file_counts_not_met"
                  ELSE IF MinThresholdOf(library) > 0 THEN "thresholds_not_met"
                  ELSE "section_not_found"

C11_Witness ==
    /\ pc = "returned"
    /\ \E k \in Unmatched : LastLogged(k) = "section_not_found"
    /\ \E k \in Unmatched : LastLogged(k) = "thresholds_not_met"
    /\ sections # EmptyDict

\* The sum of the item counts of the directories paths
RECURSIVE SumItems(_)
SumItems(paths) ==
    IF paths = <<>> THEN 0 ELSE DirItems[Head(paths)] + SumItems(Tail(paths))

\* C12: the file count every processed library is validated with is the sum
\* of the item counts of the library's own configured paths, libraries that
\* share a name included.
C12_FileCountIsOwnPathSum ==
    \A k \in 1..Len(plog) :
        config_data[k]["file_count"] = SumItems(config_data[k]["path"].v)

\* The emptyTrash requests sent so far, in order
TrashCallSeq == SelectSeq(calls, LAMBDA c : c.op = "empty_section_trash")

\* C13: main run on a configuration and main run on the same configuration
\* with every bare-string path written as a one-element list, given the
\* same answers by the file system and the server, count the same files for
\* every library, log the same validation outcome, send the same emptyTrash
\* requests, fill the same two lists and end the same way (same exit code
\* or same exception).
C13_StringPathAsOneElementList ==
    pc # "idle" =>
        /\ twin.section_file_counts = section_file_counts
        /\ twin.total_count = total_count
        /\ twin.plog = plog
        /\ twin.calls = TrashCallSeq
        /\ twin.successful_libraries = successful_libraries
        /\ twin.failed_libraries = failed_libraries
        /\ twin.exit_code = exit_code
        /\ (pc \in {"file_counts", "process", "report", "returned", "raised"}
                /\ raised.origin \notin {"PlexClient", "get_library_sections",
                                         "get_library_size"}
                => twin.raised = raised.type)

C13_Witness ==
    /\ pc = "returned"
    /\ \E k \in 1..Len(config_given) : config_given[k]["path"].kind = "str"
    /\ TrashCallSeq # <<>>
    /\ twin.calls # <<>>
    /\ exit_code = Num(1)
    /\ twin.exit_code = Num(1)

\* C14: when main returns, every configured library is in exactly one of
\* the two lists, the successful ones (those whose trash was emptied) in the
\* successful list and the others in the failed list, each list in
\* configuration order and the two lengths adding up to the number of
\* configured libraries; two libraries of which the first's emptyTrash
\* returns true and the second's returns false give one name in each list
\* and exit code 1.
C14_ListsPartitionInOrder ==
    pc = "returned" =>
        /\ Len(plog) = Len(config_given)
        /\ Len(successful_libraries) + Len(failed_libraries) = Len(config_given)
        /\ Len(successful_libraries) = SucceededUpTo(Len(config_given))
        /\ Len(failed_libraries) = FailedUpTo(Len(config_given))
        /\ \A k \in 1..Len(config_given) :
              /\ config_data[k]["name"] = config_given[k]["name"]
              /\ IF Succeeded(k) THEN RecordedSuccessful(k) ELSE RecordedFailed(k)
        /\ (/\ Len(config_given) = 2
            /\ Len(TrashCallSeq) = 2
            /\ TrashCallSeq[1].resp = HttpResponse(HTTP_OK)
            /\ ~Failed(TrashCallSeq[2].resp)
            /\ TrashCallSeq[2].resp # HttpResponse(HTTP_OK))
           => /\ successful_libraries = <<config_given[1]["name"]>>
              /\ failed_libraries = <<config_given[2]["name"]>>
              /\ exit_code = Num(1)

C14_Witness ==
    /\ pc = "returned"
    /\ Len(config_given) = 2
    /\ Len(TrashCallSeq) = 2
    /\ TrashCallSeq[1].resp = HttpResponse(HTTP_OK)
    /\ TrashCallSeq[2].resp = HttpResponse(204)
    /\ successful_libraries = <<config_given[1]["name"]>>
    /\ failed_libraries = <<config_given[2]["name"]>>
    /\ exit_code = Num(1)

\* C15: the result of every library reported to the metrics collector has
\* no error message when the library succeeded, and when it failed an error
\* message that tells its failure reason: two libraries that failed for
\* different reasons (invalid directory, below the minimum, below the
\* threshold, section not found, trash not emptied) have different messages.
C15_ErrorMessageTellsReason ==
    LET details == current_run.library_details
    IN  \A k \in 1..Len(details) :
            /\ details[k].success => details[k].error_message = None
            /\ ~details[k].success => details[k].error_message # None
            /\ \A n \in 1..Len(details) :
                  (/\ ~details[k].success
                   /\ ~details[n].success
                   /\ LastLogged(k) # LastLogged(n))
                  => details[k].error_message # details[n].error_message

\* The requests of kind op sent so far
CallsOf(op) == {c \in 1..Len(calls) : calls[c].op = op}

\* C16: in a run that returns, the section listing was requested exactly
\* once, the size of every listed section exactly once (whether or not a
\* configured library names it), and emptyTrash exactly once for every
\* configured library that passed its three checks and has a section id,
\* and not at all for any other library.
C16_CallCounts ==
    pc = "returned" =>
        /\ Cardinality(CallsOf("get_library_sections")) = 1
        /\ Cardinality(CallsOf("get_library_size")) = Cardinality(DOMAIN sections)
        /\ \A name \in DOMAIN sections :
              Cardinality({c \in CallsOf("get_library_size") :
                              calls[c].arg = sections[name]}) = 1
        /\ \A c \in TrashCalls : calls[c].lib \in 1..Len(config_given)
        /\ \A k \in 1..Len(config_given) :
              Cardinality({c \in TrashCalls : calls[c].lib = k}) =
                  IF /\ \E n \in 1..Len(plog[k]) : plog[k][n] = "all_checks_passed"
                     /\ config_data[k]["section_key"] # None
                  THEN 1 ELSE 0

C16_Witness ==
    /\ pc = "returned"
    /\ Len(config_given) = 2
    /\ Cardinality(TrashCalls) = 1
    /\ Cardinality(CallsOf("get_library_size")) = 2
    /\ \A k \in 1..Len(config_given) : config_given[k]["name"] # "Music"
    /\ \E k \in 1..Len(config_given) :
          /\ LastLogged(k) = "section_not_found"
          /\ config_data[k]["section_key"] = None

\* C17: after main returns, the path of every library entry of the caller's
\* configuration is a list: a bare-string path has become the one-element
\* list holding that string, and a list path holds the elements it held.
C17_PathsAreListsAfterMain ==
    pc = "returned" =>
        /\ Len(config_data) = Len(config_given)
        /\ \A k \in 1..Len(config_given) :
              /\ config_data[k]["path"].kind = "list"
              /\ config_data[k]["path"] =
                    IF config_given[k]["path"].kind = "str"
                    THEN ListPath(<<config_given[k]["path"].v[1]>>)
                    ELSE config_given[k]["path"]

C17_Witness ==
    /\ pc = "returned"
    /\ Len(config_given) = 2
    /\ config_given[1]["path"] = StrPath("/a")
    /\ config_data[1]["path"] = ListPath(<<"/a">>)
    /\ config_given[2]["path"] = ListPath(<<"/a", "/b">>)
    /\ config_data[2]["path"] = ListPath(<<"/a", "/b">>)

\* C18: when main returns, every library entry of the caller's
\* configuration is as the caller passed it apart from the normalisation of
\* its path, and holds none of the derived fields file_count, media_count
\* and section_key.
C18_DerivedFieldsDoNotOutliveRun ==
    pc = "returned" =>
        \A k \in 1..Len(config_given) :
            /\ config_data[k] = ListForm(config_given[k])
            /\ DOMAIN config_data[k] \cap
                  {"file_count", "media_count", "section_key"} = {}

\* C19: process_library leaves the library dict it is given as it was:
\* every key it held holds the same value and no key was added, whether the
\* call returned true, returned false or raised.
C19_ProcessLibraryLeavesRecord ==
    Called => config_data[1] = config_given[1]

C19_Witness ==
    /\ pc = "unit_done"
    /\ pl_ret = <<TRUE>>
    /\ DOMAIN config_given[1] = {"name", "path", "section_key", "file_count", "media_count"}
    /\ config_data[1] = config_given[1]

\* C20: save_metrics called when the metrics file cannot be written logs a
\* 'Failed to save metrics' warning and returns: no exception leaves it.
C20_SaveMetricsSwallowsWriteFailure ==
    /\ ~(pc = "raised" /\ raised.origin = "save_metrics"
                       /\ raised.type = "PermissionError")
    /\ \A k \in 1..Len(plog) :
          (k = Len(plog) /\ pc = "raised") => plog[k] = <<"Failed to save metrics">>

\* C21: when main returns with a metrics collector, the collector's current
\* run has libraries_total equal to the number of configured libraries, to
\* libraries_successful + libraries_failed and to the length of
\* library_details; libraries_successful is the number of successful
\* libraries (libraries_failed the number of failed ones), and the recorded
\* exit code is the value main returned.
C21_RunCountersMatchOutcome ==
    (pc = "returned" /\ metrics_collector) =>
        /\ current_run.libraries_total = Len(config_given)
        /\ current_run.libraries_total =
              current_run.libraries_successful + current_run.libraries_failed
        /\ current_run.libraries_total = Len(current_run.library_details)
        /\ current_run.libraries_successful = Len(successful_libraries)
        /\ current_run.libraries_failed = Len(failed_libraries)
        /\ current_run.exit_code = exit_code
        /\ exit_code # NoNum

C21_Witness ==
    /\ pc = "returned"
    /\ metrics_collector
    /\ current_run.libraries_total = 2
    /\ current_run.libraries_successful = 1
    /\ current_run.libraries_failed = 1
    /\ current_run.exit_code = Num(1)
    /\ exit_code = Num(1)

\* The metrics the file holds
Stored == load_historical_metrics(metrics_file)

\* The last n elements of a sequence
LastOf(seq, n) == SubSeq(seq, Len(seq) - n + 1, Len(seq))

\* C22: after n runs have been saved to the metrics file, the stored run
\* history is the most recent min(n, 100) of them in the order they were
\* saved, and summary.total_runs is n.
C22_HistoryKeepsLastHundred ==
    LET n == Len(saved_runs)
    IN  /\ Stored.summary.total_runs = n
        /\ Len(Stored.runs) = IF n < 100 THEN n ELSE 100
        /\ Stored.runs = LastOf(saved_runs, IF n < 100 THEN n ELSE 100)

C22_Witness ==
    /\ pc = "mc_saved"
    /\ Len(saved_runs) = 101
    /\ Stored.summary.total_runs = 101
    /\ Len(Stored.runs) = 100
    /\ Stored.runs[1] = EarlierRun(2)
    /\ Stored.runs[100] = current_run

\* The saved runs that satisfy a condition, and the sum of a counter over
\* the saved runs
SavedWith(code) == {k \in 1..Len(saved_runs) : saved_runs[k].exit_code = Num(code)}
RECURSIVE SumOver(_, _)
SumOver(counter, n) ==
    IF n = 0 THEN 0 ELSE saved_runs[n][counter] + SumOver(counter, n - 1)

\* C23: after any sequence of runs saved to the same file, total_runs =
\* successful_runs + partial_runs + failed_runs, the runs with exit code 0
\* are the successful ones, those with 1 the partial ones and those with 2
\* the failed ones, and total_libraries_processed, _succeeded and _failed are
\* the sums of libraries_total, libraries_successful and libraries_failed
\* over all saved runs.
C23_SummaryAccumulates ==
    LET summary == Stored.summary
    IN  /\ summary.total_runs =
              summary.successful_runs + summary.partial_runs + summary.failed_runs
        /\ summary.successful_runs = Cardinality(SavedWith(0))
        /\ summary.partial_runs = Cardinality(SavedWith(1))
        /\ summary.failed_runs = Cardinality(SavedWith(2))
        /\ summary.total_libraries_processed =
              SumOver("libraries_total", Len(saved_runs))
        /\ summary.total_libraries_succeeded =
              SumOver("libraries_successful", Len(saved_runs))
        /\ summary.total_libraries_failed =
              SumOver("libraries_failed", Len(saved_runs))

C23_Witness ==
    /\ pc = "mc_saved"
    /\ Len(saved_runs) = 2
    /\ Stored.summary.partial_runs = 1
    /\ Stored.summary.failed_runs = 1
    /\ Stored.summary.total_libraries_processed = 3
    /\ Stored.summary.total_libraries_succeeded = 1
    /\ Stored.summary.total_libraries_failed = 2

\* C24: get_current_metrics returns a copy of the current run data: no
\* modification made through the returned dictionary, to its counters or to
\* its library_details, changes the collector's own current_run.
C24_CopyIsIndependent ==
    [][pc = "mc_got" /\ pc' = "mc_changed" => current_run' = current_run]_vars

\* C25: emptyTrash counts as done if and only if the server answers the PUT
\* with status exactly 200: the library of a request answered 200 is
\* recorded as successful, the library of a request answered with another
\* non-error status (204) is recorded as failed with the trash-failed
\* message and nothing is raised for it, and a request that met an HTTP
\* error status or a transport failure is the last one of the run, which
\* ends with RequestException.
C25_TrashEmptiedOnlyOn200 ==
    \A c \in TrashCalls :
        LET resp == calls[c].resp
            k == calls[c].lib
        IN  /\ (resp.kind = "http" /\ resp.status = 200) <=> RecordedSuccessful(k)
            /\ (resp.kind = "http" /\ resp.status # 200 /\ ~Failed(resp)) <=>
                   (RecordedFailed(k) /\ LastLogged(k) = "trash_failed")
            /\ Failed(resp) <=>
                   /\ pc = "raised"
                   /\ raised = [type |-> "RequestException",
                                origin |-> "empty_section_trash"]
                   /\ c = Len(calls)

C25_Witness ==
    /\ pc = "returned"
    /\ \E c \in TrashCalls :
          /\ calls[c].resp = HttpResponse(204)
          /\ RecordedFailed(calls[c].lib)
          /\ exit_code = Num(1)

\* The file-system calls made while the file counts are built
CountingCalls == {n \in 1..Len(fs_calls) : fs_calls[n].by = "sum_path_file_counts"}

\* C26: when a library's file count is built, the validity of all of the
\* library's paths is checked before any of its paths is counted, and a
\* path found invalid ends the run with the invalid-directory error.
C26_AllPathsCheckedBeforeAnyCounted ==
    /\ \A n \in CountingCalls :
          fs_calls[n].op = "get_file_counts" =>
              LET paths == AsList(config_given[fs_calls[n].lib]["path"])
              IN  \A q \in 1..Len(paths) :
                     \E m \in CountingCalls :
                        /\ m < n
                        /\ fs_calls[m].op = "is_valid_directory"
                        /\ fs_calls[m].lib = fs_calls[n].lib
                        /\ fs_calls[m].path = paths[q]
    /\ \A n \in CountingCalls :
          (fs_calls[n].op = "is_valid_directory" /\ ~fs_calls[n].ok) =>
              /\ n = Len(fs_calls)
              /\ pc = "raised"
              /\ raised = [type |-> "ValueError", origin |-> "sum_path_file_counts"]

\* C27 as stated: a processed library whose name has no matching section
\* gets media count 0 and no error is raised for it; whenever its minimum
\* threshold is positive it is failed by the threshold check, and it
\* reaches the section-not-found branch only when its minimum threshold is 0.
C27_UnmatchedFailsThreshold ==
    \A k \in Unmatched :
        LET library == config_data[k]
        IN  /\ library["media_count"] = 0
            /\ k \in Recorded
            /\ MinThresholdOf(library) > 0 => LastLogged(k) = "thresholds_not_met"
            /\ LastLogged(k) = "section_not_found" => MinThresholdOf(library) = 0

\* C27 amended: a processed library whose name has no matching section gets
\* media count 0 and no error is raised for it; if its directories are
\* valid and its file count reaches its minimum, it is failed by the
\* threshold check whenever its minimum threshold is positive, and it
\* reaches the section-not-found branch only when its minimum threshold is 0.
C27_UnmatchedFailsThresholdWhenReached ==
    \A k \in Unmatched :
        LET library == config_data[k]
        IN  /\ library["media_count"] = 0
            /\ k \in Recorded
            /\ (/\ dirs_seen[k]
                /\ library["file_count"] >= MinFilesOf(library)
                /\ MinThresholdOf(library) > 0)
                   => LastLogged(k) = "thresholds_not_met"
            /\ LastLogged(k) = "section_not_found" => MinThresholdOf(library) = 0

C27_Witness ==
    /\ pc = "returned"
    /\ \E k \in Unmatched :
          /\ MinThresholdOf(config_data[k]) = 90
          /\ config_data[k]["file_count"] = 95
          /\ config_data[k]["media_count"] = 0
          /\ LastLogged(k) = "thresholds_not_met"
          /\ \E n \in DOMAIN sections : section_media_counts[n] = 50

\* Validation has begun: process_library was entered for some library, a
\* directory was checked by is_dirs_valid or an emptyTrash request was sent
ValidationBegun ==
    \/ plog # <<>>
    \/ \E n \in 1..Len(fs_calls) : fs_calls[n].by = "is_dirs_valid"
    \/ TrashCalls # {}

\* The listing was answered, the size of every listed section was answered
\* and every path of every configured library was checked and counted
FetchingAndCountingComplete ==
    /\ \E c \in CallsOf("get_library_sections") : ~Failed(calls[c].resp)
    /\ \A name \in DOMAIN sections :
          \E c \in CallsOf("get_library_size") :
             calls[c].arg = sections[name] /\ ~Failed(calls[c].resp)
    /\ \A k \in 1..Len(config_given) :
          LET paths == AsList(config_given[k]["path"])
          IN  \A q \in 1..Len(paths) :
                 \A op \in {"is_valid_directory", "get_file_counts"} :
                    \E n \in CountingCalls :
                       /\ fs_calls[n].op = op
                       /\ fs_calls[n].lib = k
                       /\ fs_calls[n].path = paths[q]
                       /\ fs_calls[n].ok

\* C28: the section listing, every section size request and the file
\* counting of every configured library are complete before the first
\* library is validated and before the first emptyTrash request; a run that
\* an error raised while counting ended has validated no library and sent
\* no emptyTrash request.
C28_FetchAndCountBeforeValidation ==
    /\ ValidationBegun => FetchingAndCountingComplete
    /\ (pc = "raised" /\ raised.origin \in {"sum_path_file_counts", "get_file_counts"})
          => ~ValidationBegun

C28_Witness ==
    /\ pc = "raised"
    /\ raised.origin = "sum_path_file_counts"
    /\ Len(config_given) = 2
    /\ \E n \in CountingCalls : fs_calls[n].lib = 2 /\ ~fs_calls[n].ok
    /\ \E n \in CountingCalls : fs_calls[n].lib = 1 /\ fs_calls[n].op = "get_file_counts"
    /\ config_given[1]["name"] \in DOMAIN sections
    /\ TrashCalls = {}

\* The calls of filesystem.is_valid_directory made so far
ValidityChecks == {n \in 1..Len(fs_calls) : fs_calls[n].op = "is_valid_directory"}

\* Every path was found valid every time or invalid every time it was checked
ValidityStable ==
    \A m, n \in ValidityChecks :
        fs_calls[m].path = fs_calls[n].path => fs_calls[m].ok = fs_calls[n].ok

\* C29: if the validity of every configured path stays the same for the
\* whole run, the directory check of process_library fails for no library;
\* a library fails its directory check only if one of its paths was found
\* valid when the files were counted and invalid when it was validated.
C29_StablePathsPassDirectoryCheck ==
    /\ ValidityStable =>
          \A k \in 1..Len(plog) : dirs_seen[k] /\ LastLogged(k) # "dirs_invalid"
    /\ \A k \in 1..Len(plog) :
          LastLogged(k) = "dirs_invalid" =>
              \E m, n \in ValidityChecks :
                 /\ m < n
                 /\ fs_calls[m].by = "sum_path_file_counts"
                 /\ fs_calls[m].ok
                 /\ fs_calls[n].by = "is_dirs_valid"
                 /\ fs_calls[n].lib = k
                 /\ fs_calls[n].path = fs_calls[m].path
                 /\ ~fs_calls[n].ok

C29_Witness ==
    /\ pc = "returned"
    /\ ValidityStable
    /\ Len(plog) = 2
    /\ dirs_seen = <<TRUE, TRUE>>
    /\ config_given[1]["path"] = StrPath("/a")
    /\ config_given[2]["path"] = ListPath(<<"/a", "/b">>)
    /\ \E n \in ValidityChecks :
          /\ fs_calls[n].by = "is_dirs_valid"
          /\ fs_calls[n].lib = 2
          /\ fs_calls[n].path = "/b"

\* The places an error that aborts main before its report comes from
AbortOrigins ==
    {"PlexClient", "get_library_sections", "get_library_size",
     "sum_path_file_counts", "get_file_counts", "empty_section_trash"}

\* C30: when a run with a metrics collector is aborted by an error of the
\* client construction, the section listing, a section size, the file
\* counting or emptyTrash, end_run and save_metrics are not called: the run
\* has a start time but no end time, duration or exit code, and the metrics
\* file is as it was before the run.
C30_AbortedRunLeavesNoMetrics ==
    (pc = "raised" /\ metrics_collector /\ raised.origin \in AbortOrigins) =>
        /\ current_run.start_time # NoNum
        /\ current_run.end_time = NoNum
        /\ current_run.duration_seconds = NoNum
        /\ current_run.exit_code = NoNum
        /\ metrics_file = <<>>
        /\ saved_runs = <<>>
        /\ exit_code = NoNum

C30_Witness ==
    /\ pc = "raised"
    /\ metrics_collector
    /\ raised.origin = "empty_section_trash"
    /\ current_run.libraries_successful = 1
    /\ current_run.start_time = Num(0)
    /\ current_run.end_time = NoNum
    /\ metrics_file = <<>>

====
